---- MODULE Spec2Model ----
(***************************************************************************)
(* Model of src/viewer.py (UniReportViewer): the archive tree renderer     *)
(* display_archive_tree, the substring filter quick_filter_df, the record  *)
(* normalizer df_from_list_of_dicts, the section extraction and the        *)
(* session state machine of the page script.                               *)
(***************************************************************************)
EXTENDS Integers, Sequences, FiniteSets, TLC

\* ------------------------------------------------------------------ bounds
\* Number of distinct archive entries an input structure may hold.
MaxEntries == 3

\* The traversal of a cyclic structure never ends; the model stops following
\* it once an entry is popped at this level.
LevelCap == MaxEntries + 1

Nodes == 1..MaxEntries

\* ------------------------------------------------------------------ state
\* display_archive_tree
VARIABLES
    entries,      \* the argument: [isList, top, nested, kind]
    stack,        \* the work list of <<entry, level>> pairs; its end is the top
    out,          \* the expanders emitted so far, in emission order
    notices,      \* the notices emitted (st.warning / st.write)
    tpc,          \* position in display_archive_tree
    opened        \* the expanders the user has opened in the browser

\* quick_filter_df
VARIABLES
    df,        \* the table argument: [columns, index, rows]
    q1, q2,    \* two query strings
    res1,      \* quick_filter_df(df, q1)
    res12,     \* quick_filter_df(df, q1 + q2)
    res11,     \* quick_filter_df(quick_filter_df(df, q1), q1)
    fdone      \* which of the three calls have been made

\* the page script
VARIABLES
    session_state,  \* st.session_state: username, selected_file, scan_data,
                    \* current_section
    bucket,         \* the file names stored in the remote bucket
    pc,             \* position of the script run ("idle": waiting for the user)
    trigger,        \* the widget interaction that started the script run
    radio_live,     \* the section radio was drawn by the previous script run
    user_files,     \* local of the script: the listing
    selected_real,  \* local of the script: the file the selector resolved to
    picked_file,    \* the listed file at the position the user picked, if any
    errors,         \* the st.error messages of the script run
    last_download,  \* what download_scan_from_b2 returned in this script run:
                    \* "failed" (None), "report" or "empty", else "not_called"
    act,            \* the user action being handled, over its reruns
    before,         \* username/selected_file/scan_data when that action began
    run_start       \* username/selected_file/scan_data when this run began

\* df_from_list_of_dicts
VARIABLES
    items,            \* the argument: [isNone, list]
    default_columns,  \* the argument: [given, cols]
    table,            \* what the call returned: [raised, columns, rows]
    npc               \* position of the call

\* the section extraction of the page script
VARIABLES
    document,         \* data, the held document: [snapshot, appdata, deleted,
                      \* processes]
    downloads_files,  \* locals of lines 286-289
    appdata_files,
    deleted_files,
    processes,        \* local of line 281
    xpc               \* position of the extraction

treeVars == <<entries, stack, out, notices, tpc, opened>>
filterVars == <<df, q1, q2, res1, res12, res11, fdone>>
sessionVars == <<session_state, bucket, pc, trigger, radio_live, user_files,
                 selected_real, picked_file, errors, last_download, act, before,
                 run_start>>
normVars == <<items, default_columns, table, npc>>
extractVars == <<document, downloads_files, appdata_files, deleted_files,
                 processes, xpc>>
dataVars == <<normVars, extractVars>>
vars == <<treeVars, filterVars, sessionVars, dataVars>>

\* ===================================================================
\* display_archive_tree (src/viewer.py:107-140)
\* ===================================================================

\* What an element of a list of entries can be in a parsed JSON document.
EntryKinds == {"dict", "str", "num", "null"}

\* ---- building the inputs ------------------------------------------
RECURSIVE Ordered(_)
\* The elements of a set of entries as a list, in increasing order.
Ordered(S) ==
    IF S = {} THEN <<>>
    ELSE LET m == CHOOSE x \in S : \A y \in S : x <= y
         IN <<m>> \o Ordered(S \ {m})

\* The list of children of entry n (0: the top-level list) when every entry m
\* lies in the list of parent[m], with one more reference to link[2] appended
\* to the children of link[1] (link = <<0, 0>>: none).
ChildList(parent, link, n) ==
    Ordered({m \in Nodes : parent[m] = n})
        \o (IF link[1] = n /\ link[1] # 0 THEN <<link[2]>> ELSE <<>>)

\* A list argument.
ListInput(parent, link, kind) ==
    [isList |-> TRUE,
     top    |-> ChildList(parent, link, 0),
     nested |-> [n \in Nodes |-> ChildList(parent, link, n)],
     kind   |-> kind]

\* A top-level value that is not a list (a mapping, a string, null).
NonListInput ==
    [isList |-> FALSE,
     top    |-> <<>>,
     nested |-> [n \in Nodes |-> <<>>],
     kind   |-> [n \in Nodes |-> "dict"]]

AllDicts == [n \in Nodes |-> "dict"]
NoLink == <<0, 0>>

\* The arguments the model passes: every arrangement of the entries into
\* nested lists, either well formed, or with one element that is no mapping,
\* or with one entry referenced a second time (which can close a cycle).
TreeInputs ==
    {NonListInput}
    \cup {ListInput(p, NoLink, AllDicts) : p \in [Nodes -> 0..MaxEntries]}
    \cup {ListInput(p, NoLink, [AllDicts EXCEPT ![b] = k]) :
            p \in [Nodes -> 0..MaxEntries], b \in Nodes,
            k \in EntryKinds \ {"dict"}}
    \cup {ListInput(p, <<f, t>>, AllDicts) :
            p \in [Nodes -> 0..MaxEntries], f \in Nodes, t \in Nodes}

\* ---- the code ------------------------------------------------------
RECURSIVE Reversed(_)
\* reversed(seq)
Reversed(s) == IF s = <<>> THEN <<>> ELSE Reversed(Tail(s)) \o <<Head(s)>>

\* [(entry, lvl) for entry in reversed(list)], in push order
Tagged(list, lvl) == [i \in 1..Len(list) |-> <<Reversed(list)[i], lvl>>]

\* Mutant of PushNested: the children are pushed in input order.
PushNested_InOrder(stk, nested_entries, level) ==
    stk \o [i \in 1..Len(nested_entries) |-> <<nested_entries[i], level + 1>>]

\* Mutant of PushNested: the children are not pushed during the render.
PushNested_Deferred(stk, nested_entries, level) == stk

\* Mutant of PushNested: the children are pushed with their parent's level.
PushNested_SameLevel(stk, nested_entries, level) ==
    stk \o Tagged(nested_entries, level)

\* Mutant of PushNested: every child is pushed twice.
PushNested_Twice(stk, nested_entries, level) ==
    stk \o Tagged(nested_entries, level + 1) \o Tagged(nested_entries, level + 1)

\* Pushing the children of an entry: line 139-140.
PushNested(stk, nested_entries, level) == stk \o Tagged(nested_entries, level + 1)

\* The expander of line 132: always created with expanded=False.
Expander(current_entry, level) ==
    [node |-> current_entry, level |-> level, expanded |-> FALSE]

TreeInit ==
    /\ entries \in TreeInputs
    /\ stack = <<>>
    /\ out = <<>>
    /\ notices = <<>>
    /\ tpc = "start"
    /\ opened = {}

\* Mutant of TreeStart: no isinstance check, a value that is no list is
\* handled like an empty list.
TreeStart_NoTypeCheck ==
    /\ tpc = "start"
    /\ IF entries.top = <<>>
       THEN /\ notices' = Append(notices, "no_content")
            /\ tpc' = "done"
            /\ stack' = stack
       ELSE /\ notices' = notices
            /\ stack' = Tagged(entries.top, 0)
            /\ tpc' = "loop"
    /\ UNCHANGED <<entries, out, opened, filterVars, sessionVars, dataVars>>

\* Lines 108-116: the two early returns and the seeding of the work list.
TreeStart ==
    /\ tpc = "start"
    /\ IF ~entries.isList
       THEN /\ notices' = Append(notices, "not_an_archive")
            /\ tpc' = "done"
            /\ stack' = stack
       ELSE IF entries.top = <<>>
       THEN /\ notices' = Append(notices, "no_content")
            /\ tpc' = "done"
            /\ stack' = stack
       ELSE /\ notices' = notices
            /\ stack' = Tagged(entries.top, 0)
            /\ tpc' = "loop"
    /\ UNCHANGED <<entries, out, opened, filterVars, sessionVars, dataVars>>

\* Lines 118-140: one iteration of the while loop. current_entry.get raises
\* AttributeError when the popped element is no mapping; nothing catches it.
TreeVisit ==
    /\ tpc = "loop"
    /\ stack # <<>>
    /\ LET current_entry == stack[Len(stack)][1]
           level == stack[Len(stack)][2]
           popped == SubSeq(stack, 1, Len(stack) - 1)
       IN /\ level <= LevelCap
          /\ IF entries.kind[current_entry] # "dict"
             THEN /\ tpc' = "raised"
                  /\ stack' = popped
                  /\ out' = out
             ELSE LET nested_entries == entries.nested[current_entry]
                  IN /\ out' = Append(out, Expander(current_entry, level))
                     /\ stack' = PushNested(popped, nested_entries, level)
                     /\ tpc' = IF stack' = <<>> THEN "done" ELSE "loop"
    /\ UNCHANGED <<entries, notices, opened, filterVars, sessionVars, dataVars>>

\* The user opens or closes an emitted expander; this happens in the browser
\* and starts no script run.
ToggleExpander ==
    /\ tpc = "done"
    /\ \E i \in 1..Len(out) :
          opened' = IF out[i].node \in opened
                    THEN opened \ {out[i].node}
                    ELSE opened \cup {out[i].node}
    /\ UNCHANGED <<entries, stack, out, notices, tpc, filterVars, sessionVars, dataVars>>

\* display_archive_tree is not running.
TreeIdle ==
    /\ entries = NonListInput
    /\ stack = <<>>
    /\ out = <<>>
    /\ notices = <<>>
    /\ tpc = "off"
    /\ opened = {}

TreeNext == TreeStart \/ TreeVisit \/ ToggleExpander


\* ---- properties of display_archive_tree ---------------------------
RECURSIVE Deep(_, _)
\* There is a path of k references starting at entry n.
Deep(n, k) ==
    \/ k = 0
    \/ \E i \in 1..Len(entries.nested[n]) : Deep(entries.nested[n][i], k - 1)

\* An entry is reachable from its own nested-children list.
HasCycle == \E i \in 1..Len(entries.top) : Deep(entries.top[i], MaxEntries)

\* Every element met by the traversal is a mapping.
AllMappings == \A n \in Nodes : entries.kind[n] = "dict"

WellFormed == entries.isList /\ AllMappings /\ ~HasCycle

RECURSIVE PreOrder(_, _)
\* The recursive pre-order depth-first walk of a list of entries.
PreOrder(list, lvl) ==
    IF list = <<>> THEN <<>>
    ELSE <<[node |-> Head(list), level |-> lvl]>>
            \o PreOrder(entries.nested[Head(list)], lvl + 1)
            \o PreOrder(Tail(list), lvl)

EmittedNodes == [i \in 1..Len(out) |-> out[i].node]
PreOrderNodes == LET w == PreOrder(entries.top, 0) IN [i \in 1..Len(w) |-> w[i].node]

IsPrefix(s, t) == Len(s) <= Len(t) /\ SubSeq(t, 1, Len(s)) = s

\* C1: for every finite forest of entries the nodes are emitted in pre-order
\* depth-first order: what has been emitted is always an initial part of the
\* recursive pre-order walk, and the whole of it when the loop ends.
C1_PreOrder ==
    WellFormed =>
        /\ IsPrefix(EmittedNodes, PreOrderNodes)
        /\ tpc = "done" => EmittedNodes = PreOrderNodes

\* C1 witness: [A, B] with A holding a child has been rendered to the end.
C1_Witness ==
    /\ WellFormed
    /\ tpc = "done"
    /\ Len(entries.top) >= 2
    /\ entries.nested[entries.top[1]] # <<>>
    /\ Len(out) = MaxEntries

\* C3: display_archive_tree raises for no list input, whatever its elements.
C3_NeverRaises == entries.isList => tpc # "raised"

\* The entries under which entry n is nested.
ParentsOf(n) ==
    {p \in Nodes : \E j \in 1..Len(entries.nested[p]) : entries.nested[p][j] = n}

\* C5 as stated: the children of an entry are not visited or emitted until the
\* user has opened that entry's node.
C5_Lazy ==
    \A i \in 1..Len(out) :
        out[i].level > 0 => ParentsOf(out[i].node) \cap opened # {}

\* C5 amended: every node is emitted collapsed, and one render emits every
\* entry of the tree, children included, whatever the user has opened.
C5_CollapsedNotLazy ==
    /\ \A i \in 1..Len(out) : out[i].expanded = FALSE
    /\ (WellFormed /\ tpc = "done") => Len(out) = Len(PreOrder(entries.top, 0))

\* C5 witness: a finished render that emitted a child of a node the user has
\* not opened, while another node is open.
C5_Witness ==
    /\ WellFormed
    /\ tpc = "done"
    /\ opened # {}
    /\ \E i \in 1..Len(out) :
          out[i].level > 0 /\ ParentsOf(out[i].node) \cap opened = {}

\* C6: on a structure with a cycle the traversal is bounded in depth: with
\* MaxEntries distinct entries no node is emitted at level MaxEntries or deeper.
C6_BoundedDepth ==
    (entries.isList /\ AllMappings /\ HasCycle) =>
        \A i \in 1..Len(out) : out[i].level < MaxEntries

\* The levels of the recursive walk: 0 for a top-level entry, one more than
\* the parent's for a nested entry.
PreOrderLevels == LET w == PreOrder(entries.top, 0) IN [i \in 1..Len(w) |-> w[i].level]
EmittedLevels == [i \in 1..Len(out) |-> out[i].level]

\* C11: every emitted node carries the nesting depth of its entry in the
\* input: 0 for a top-level entry, its parent's level plus one for a nested
\* entry, so an entry nested k deep is emitted with level k.
C11_LevelIsDepth ==
    WellFormed =>
        /\ IsPrefix(EmittedLevels, PreOrderLevels)
        /\ \A i \in 1..Len(out) :
              \/ out[i].level = 0 /\ \E j \in 1..Len(entries.top) :
                                        entries.top[j] = out[i].node
              \/ \E k \in 1..(i - 1) :
                    /\ out[k].node \in ParentsOf(out[i].node)
                    /\ out[i].level = out[k].level + 1

\* C11 witness: a chain of MaxEntries entries, each nested in the one before,
\* has been rendered and its innermost entry emitted at level MaxEntries - 1.
C11_Witness ==
    /\ WellFormed
    /\ tpc = "done"
    /\ Len(out) = MaxEntries
    /\ \A i \in 1..Len(out) : out[i].level = i - 1

\* C12: a top-level value that is not a list yields exactly one "not an
\* archive" notice, no traversal and no exception; an empty list yields
\* exactly one "no content" notice and nothing else.
C12_EarlyReturns ==
    tpc \notin {"start", "off"} =>
        /\ ~entries.isList =>
              /\ notices = <<"not_an_archive">>
              /\ out = <<>> /\ stack = <<>> /\ tpc = "done"
        /\ (entries.isList /\ entries.top = <<>>) =>
              /\ notices = <<"no_content">>
              /\ out = <<>> /\ stack = <<>> /\ tpc = "done"
        /\ (entries.isList /\ entries.top # <<>>) => notices = <<>>

\* C12 witness: display_archive_tree has returned for a value that is no list.
C12_Witness == ~entries.isList /\ tpc = "done" /\ Len(notices) = 1

\* The entries of the input: those met by the recursive walk.
EntrySet == {PreOrderNodes[i] : i \in 1..Len(PreOrderNodes)}

\* A finite acyclic forest: well formed and no entry is referenced twice.
IsForest ==
    /\ WellFormed
    /\ \A i, j \in 1..Len(PreOrderNodes) :
          PreOrderNodes[i] = PreOrderNodes[j] => i = j

InTop(n) == \E j \in 1..Len(entries.top) : entries.top[j] = n
Emitted == {out[i].node : i \in 1..Len(out)}
OnStack == {stack[i][1] : i \in 1..Len(stack)}

\* The stack holds exactly the entries not yet emitted whose parent has been
\* emitted (or that are top-level), each once; no entry is emitted twice, and
\* when the loop has ended the stack is empty and every entry was emitted.
StackInvariant ==
    /\ OnStack = {n \in EntrySet \ Emitted :
                     InTop(n) \/ ParentsOf(n) \cap Emitted # {}}
    /\ \A i, j \in 1..Len(stack) : stack[i][1] = stack[j][1] => i = j
    /\ \A i, j \in 1..Len(out) : out[i].node = out[j].node => i = j
    /\ tpc = "loop" => stack # <<>>
    /\ tpc = "done" => stack = <<>> /\ Emitted = EntrySet

\* C20: for every finite acyclic forest of well-formed entries the loop
\* terminates with an empty stack after emitting exactly one node per entry,
\* and at every step the stack holds exactly the not-yet-emitted entries whose
\* parent has already been emitted or that are top-level.
C20_TerminatesExactlyOnce ==
    /\ []((IsForest /\ tpc \in {"loop", "done"}) => StackInvariant)
    /\ (IsForest /\ tpc = "start") ~> (tpc = "done")

\* C20 witness: the loop has ended on a forest of MaxEntries entries, one of
\* them nested.
C20_Witness ==
    /\ IsForest
    /\ tpc = "done"
    /\ Cardinality(EntrySet) = MaxEntries
    /\ \E i \in 1..Len(out) : out[i].level > 0

\* ===================================================================
\* quick_filter_df (src/viewer.py:95-105)
\* ===================================================================
\* Number of rows of a table.
MaxRows == 2


\* A cell of a DataFrame: a string, None (a JSON null) or NaN (a key the
\* record lacks). Strings are sequences of characters.
StrCell(s) == [kind |-> "str", text |-> s]
NoneCell == [kind |-> "None", text |-> <<>>]
NaNCell == [kind |-> "NaN", text |-> <<>>]

CellValues == {StrCell(<<"A", "b">>), NoneCell, NaNCell}

\* The pieces the queries are built of: letters in both cases and the
\* characters ".", "|" and "(", which the regular expression syntax of
\* Series.str.contains gives a meaning.
QueryParts == {<<>>, <<"a">>, <<"B">>, <<"n">>, <<".">>, <<"|">>, <<"(">>}

Columns == <<"c1", "c2">>

\* The tables the model passes, with the default RangeIndex 0..n-1.
Tables ==
    UNION {
        {[columns |-> Columns, index |-> [i \in 1..n |-> i - 1], rows |-> r] :
            r \in [1..n -> [1..Len(Columns) -> CellValues]]}
        : n \in 0..MaxRows}

\* str.lower() of one character.
LowerChar(c) ==
    CASE c = "A" -> "a"
      [] c = "B" -> "b"
      [] c = "N" -> "n"
      [] OTHER -> c

\* str.lower()
Lower(s) == [i \in 1..Len(s) |-> LowerChar(s[i])]

\* astype(str) of a cell: None and NaN become the words "None" and "nan".
AsTypeStr(cell) ==
    CASE cell.kind = "None" -> <<"N", "o", "n", "e">>
      [] cell.kind = "NaN"  -> <<"n", "a", "n">>
      [] OTHER -> cell.text

\* re.compile(pat) raises re.error: an opening parenthesis is never closed.
InvalidPattern(pat) == \E i \in 1..Len(pat) : pat[i] = "("

RECURSIVE Alternatives(_)
\* The alternatives of a pattern, split at "|".
Alternatives(pat) ==
    IF \A i \in 1..Len(pat) : pat[i] # "|" THEN {pat}
    ELSE LET k == CHOOSE i \in 1..Len(pat) :
                      pat[i] = "|" /\ \A j \in 1..(i - 1) : pat[j] # "|"
         IN {SubSeq(pat, 1, k - 1)} \cup Alternatives(SubSeq(pat, k + 1, Len(pat)))

\* One alternative matches the text at position pos; "." matches any character.
MatchesAt(text, alt, pos) ==
    /\ pos + Len(alt) - 1 <= Len(text)
    /\ \A i \in 1..Len(alt) : alt[i] = "." \/ alt[i] = text[pos + i - 1]

\* re.search(pat, text) finds a match, for a valid pattern.
ReSearch(pat, text) ==
    \E alt \in Alternatives(pat) :
        \E pos \in 1..(Len(text) + 1) : MatchesAt(text, alt, pos)

\* Line 102 for one column: df[col].astype(str).str.lower().str.contains(q,
\* na=False), with regex=True by default; raised when the pattern does
\* not compile.
ColumnContains(t, col, q) ==
    IF InvalidPattern(q)
    THEN [raised |-> TRUE, hit |-> [i \in 1..Len(t.rows) |-> FALSE]]
    ELSE [raised |-> FALSE,
          hit    |-> [i \in 1..Len(t.rows) |->
                         ReSearch(q, Lower(AsTypeStr(t.rows[i][col])))]]

RECURSIVE MaskAfter(_, _, _)
\* The mask after the first k columns of the loop of lines 99-104; a column
\* that raises is skipped.
MaskAfter(t, q, k) ==
    IF k = 0 THEN [i \in 1..Len(t.rows) |-> FALSE]
    ELSE LET mask == MaskAfter(t, q, k - 1)
             c == ColumnContains(t, k, q)
         IN IF c.raised THEN mask
            ELSE [i \in 1..Len(t.rows) |-> mask[i] \/ c.hit[i]]

RECURSIVE Positions(_, _)
\* The positions 1..n at which the mask is true, in increasing order.
Positions(mask, n) ==
    IF n = 0 THEN <<>>
    ELSE Positions(mask, n - 1) \o (IF mask[n] THEN <<n>> ELSE <<>>)

\* Mutant of RowsWhere: the first row selected by the mask is lost.
RowsWhere_DropFirst(t, mask) ==
    LET keep == Tail(Positions(mask, Len(t.rows)) \o <<0>>)
        n == Len(keep) - 1
    IN [columns |-> t.columns,
        index   |-> [i \in 1..n |-> t.index[keep[i]]],
        rows    |-> [i \in 1..n |-> t.rows[keep[i]]]]

\* df[mask]: the rows at which the mask is true, with their index labels.
RowsWhere(t, mask) ==
    LET keep == Positions(mask, Len(t.rows))
    IN [columns |-> t.columns,
        index   |-> [i \in 1..Len(keep) |-> t.index[keep[i]]],
        rows    |-> [i \in 1..Len(keep) |-> t.rows[keep[i]]]]

\* DataFrame.empty
IsEmpty(t) == Len(t.rows) = 0 \/ Len(t.columns) = 0

quick_filter_df(t, q) ==
    IF q = <<>> \/ IsEmpty(t) THEN t
    ELSE RowsWhere(t, MaskAfter(t, Lower(q), Len(t.columns)))

FilterInit ==
    /\ df \in Tables
    /\ q1 \in QueryParts
    /\ q2 \in QueryParts
    /\ res1 = df
    /\ res12 = df
    /\ res11 = df
    /\ fdone = {}

FilterOnce ==
    /\ "once" \notin fdone
    /\ res1' = quick_filter_df(df, q1)
    /\ fdone' = fdone \cup {"once"}
    /\ UNCHANGED <<df, q1, q2, res12, res11, treeVars, sessionVars, dataVars>>

FilterLonger ==
    /\ "longer" \notin fdone
    /\ res12' = quick_filter_df(df, q1 \o q2)
    /\ fdone' = fdone \cup {"longer"}
    /\ UNCHANGED <<df, q1, q2, res1, res11, treeVars, sessionVars, dataVars>>

FilterRepeat ==
    /\ "once" \in fdone
    /\ "repeat" \notin fdone
    /\ res11' = quick_filter_df(res1, q1)
    /\ fdone' = fdone \cup {"repeat"}
    /\ UNCHANGED <<df, q1, q2, res1, res12, treeVars, sessionVars, dataVars>>

\* quick_filter_df is not in use.
FilterIdle ==
    /\ df = [columns |-> Columns, index |-> <<>>, rows |-> <<>>]
    /\ q1 = <<>>
    /\ q2 = <<>>
    /\ res1 = df
    /\ res12 = df
    /\ res11 = df
    /\ fdone = {"once", "longer", "repeat"}

FilterNext == FilterOnce \/ FilterLonger \/ FilterRepeat


\* ---- properties of quick_filter_df --------------------------------
\* The text of a cell with absent/null rendered as the empty string.
PlainText(cell) == cell.text

\* lit occurs in text as a literal substring.
Contains(text, lit) ==
    \E pos \in 1..(Len(text) - Len(lit) + 1) :
        SubSeq(text, pos, pos + Len(lit) - 1) = lit

\* Some column of row r contains the lower-cased query literally.
RowMatchesLiterally(t, r, q) ==
    \E col \in 1..Len(t.columns) :
        Contains(Lower(PlainText(t.rows[r][col])), Lower(q))

\* C8: with a non-empty query a row is kept if and only if at least one
\* column's text (absent/null rendered as the empty string) contains the
\* lower-cased query as a literal substring.
C8_LiteralSubstring ==
    ("once" \in fdone /\ q1 # <<>>) =>
        res1 = RowsWhere(df, [r \in 1..Len(df.rows) |-> RowMatchesLiterally(df, r, q1)])

IndexSet(t) == {t.index[i] : i \in 1..Len(t.index)}

\* C9: the rows of quick_filter_df(t, q1+q2) are a subset of the rows of
\* quick_filter_df(t, q1).
C9_Monotone ==
    {"once", "longer"} \subseteq fdone => IndexSet(res12) \subseteq IndexSet(res1)

\* C18: quick_filter_df(t, "") returns t unchanged, and filtering twice with
\* the same query equals filtering once: the same rows, in the same order,
\* under the same index labels and columns.
C18_Idempotent ==
    /\ ("once" \in fdone /\ q1 = <<>>) => res1 = df
    /\ "repeat" \in fdone => res11 = res1

\* C18 witness: a query that removed one row and kept another has been
\* applied a second time to its own result.
C18_Witness ==
    /\ "repeat" \in fdone
    /\ q1 # <<>>
    /\ Len(res1.rows) > 0
    /\ Len(res1.rows) < Len(df.rows)

\* ===================================================================
\* The page script and st.session_state (src/viewer.py:164-275)
\* ===================================================================
\* Names are sequences of pieces, so that endswith is computed on them.
NoUser == <<>>
UserU == <<"u">>
UserAU == <<"a", "_", "u">>
Usernames == {NoUser, UserU, UserAU}

FileA == <<"a", "_", "u", ".json">>
FileB == <<"b", "_", "u", ".json">>
FileC == <<"x", "_", "a", "_", "u", ".json">>
FileD == <<"b", "_", "u", ".txt">>
FileNames == {FileA, FileB, FileC, FileD}

\* b2 lists a bucket in file-name order.
LsOrder == <<FileA, FileB, FileD, FileC>>

\* file_version.upload_timestamp, in milliseconds. FileA and FileC were
\* uploaded within the same second.
UploadTimestamp(file_name) ==
    CASE file_name = FileA -> 1000
      [] file_name = FileB -> 2000
      [] file_name = FileC -> 1500
      [] OTHER -> 3000

\* None
NoFile == <<>>
NoDoc == [file |-> NoFile, content |-> "None", for_user |-> NoUser]

\* A parsed JSON document: "report" is a non-empty object, "empty" is {}.
\* file and for_user are the model's record of which download produced it.
Doc(file_name, content, username) ==
    [file |-> file_name, content |-> content, for_user |-> username]

\* bool(data)
Truthy(data) == data # NoDoc /\ data.content # "empty"

\* The nine sections of lines 185-195; the first is the default of the radio.
sections == <<"info", "drivers", "processes", "browsers", "downloads",
              "desktop", "temp", "deleted", "modules">>

\* name.endswith(suffix)
EndsWith(name, suffix) ==
    /\ Len(suffix) <= Len(name)
    /\ SubSeq(name, Len(name) - Len(suffix) + 1, Len(name)) = suffix

\* Line 41: file_name.endswith(f"_{username}.json")
BelongsTo(file_name, username) ==
    EndsWith(file_name, <<"_">> \o username \o <<".json">>)

\* Lines 42-47: the entry appended for a file.
FileEntry(file_name) ==
    [file_name |-> file_name, upload_timestamp |-> UploadTimestamp(file_name)]

RECURSIVE Enumerated(_, _, _)
\* all_files after the loop of lines 39-47 went through the first k objects of
\* the bucket.
Enumerated(bkt, username, k) ==
    IF k = 0 THEN <<>>
    ELSE Enumerated(bkt, username, k - 1)
            \o (IF LsOrder[k] \in bkt /\ BelongsTo(LsOrder[k], username)
                THEN <<FileEntry(LsOrder[k])>> ELSE <<>>)

\* s with x put behind the elements that are at least as new: one step of a
\* stable sort by upload_timestamp, newest first.
InsertDesc(s, x) ==
    LET k == Cardinality({i \in 1..Len(s) :
                 \A j \in 1..i : s[j].upload_timestamp >= x.upload_timestamp})
    IN SubSeq(s, 1, k) \o <<x>> \o SubSeq(s, k + 1, Len(s))

RECURSIVE SortDesc(_)
\* Line 49: all_files.sort(key=upload_timestamp, reverse=True)
SortDesc(s) ==
    IF s = <<>> THEN <<>>
    ELSE InsertDesc(SortDesc(SubSeq(s, 1, Len(s) - 1)), s[Len(s)])

\* list_user_scans(bucket, username), lines 33-53: either the loop ends and the
\* list is sorted, or _bucket.ls raises after k objects and the except clause
\* reports it; all_files is returned as it is then. The st.cache_data memo
\* (line 32, cleared by line 213) can only return the listing of an earlier
\* state of the bucket, which Upload and Delete produce as well.
ListOutcomes(bkt, username) ==
    {[files |-> SortDesc(Enumerated(bkt, username, Len(LsOrder))), failed |-> FALSE]}
    \cup {[files |-> Enumerated(bkt, username, k), failed |-> TRUE] :
            k \in 0..Len(LsOrder)}

\* download_scan_from_b2(bucket, file_name), lines 56-79: the parsed document,
\* or None after an exception (no such file, network, invalid JSON). The memo
\* of line 55 can return a document for a file that is gone by now.
DownloadOutcomes(file_name, username) ==
    {NoDoc} \cup {Doc(file_name, c, username) : c \in {"report", "empty"}}

\* Lines 145-146: the text shows the time to the second.
format_timestamp(ts) == ts \div 1000

\* list.index(x): the first position holding x (1-based here).
IndexOf(s, x) == CHOOSE i \in 1..Len(s) : s[i] = x /\ \A j \in 1..(i - 1) : s[j] # x

file_options_display(files) ==
    [i \in 1..Len(files) |-> format_timestamp(files[i].upload_timestamp)]
file_options_real(files) == [i \in 1..Len(files) |-> files[i].file_name]

\* Lines 247-252: the default position of the selector.
current_index(files, selected_file) ==
    IF selected_file # NoFile
       /\ \E i \in 1..Len(files) : files[i].file_name = selected_file
    THEN IndexOf(file_options_real(files), selected_file)
    ELSE 1

\* Lines 260-261: the file the chosen option resolves to.
ResolveSelection(files, choice) ==
    LET selected_display == file_options_display(files)[choice]
        selected_idx == IndexOf(file_options_display(files), selected_display)
    IN file_options_real(files)[selected_idx]

\* Mutant of SubmitSearch: the selection is cleared on every submit.
SubmitSearch_AlwaysClear(ss, username_input) ==
    [ss EXCEPT !.username = username_input,
               !.selected_file = NoFile,
               !.scan_data = NoDoc]

\* Lines 215-218.
SubmitSearch(ss, username_input) ==
    IF username_input # ss.username
    THEN [ss EXCEPT !.username = username_input,
                    !.selected_file = NoFile,
                    !.scan_data = NoDoc]
    ELSE ss

\* Mutant of ApplySelection: a new selection keeps the held document.
ApplySelection_KeepDoc(ss, sel) ==
    IF sel # ss.selected_file THEN [ss EXCEPT !.selected_file = sel] ELSE ss

\* Lines 263-265.
ApplySelection(ss, sel) ==
    IF sel # ss.selected_file
    THEN [ss EXCEPT !.selected_file = sel, !.scan_data = NoDoc]
    ELSE ss

\* Mutant of StoreDownload: a failed download drops the held document.
StoreDownload_ClearOnFailure(ss, data) == [ss EXCEPT !.scan_data = data]

\* Lines 270-271.
StoreDownload(ss, data) ==
    IF Truthy(data) THEN [ss EXCEPT !.scan_data = data] ELSE ss

\* Line 198.
show_setup(ss) == ~Truthy(ss.scan_data) \/ ss.current_section = sections[1]

Snapshot(ss) ==
    [username |-> ss.username, selected_file |-> ss.selected_file,
     scan_data |-> ss.scan_data]

NoTrigger == [kind |-> "none", username_input |-> NoUser, section |-> sections[1]]
NoSnapshot == [username |-> NoUser, selected_file |-> NoFile, scan_data |-> NoDoc]

\* The session after lines 175-182 of the first script run, for any content of
\* the bucket.
SessionInit ==
    /\ session_state = [username |-> NoUser, selected_file |-> NoFile,
                        scan_data |-> NoDoc, current_section |-> sections[1]]
    /\ bucket \in SUBSET FileNames
    /\ pc = "idle"
    /\ trigger = NoTrigger
    /\ radio_live = FALSE
    /\ user_files = <<>>
    /\ selected_real = NoFile
    /\ picked_file = NoFile
    /\ errors = {}
    /\ last_download = "not_called"
    /\ act = "none"
    /\ before = NoSnapshot
    /\ run_start = NoSnapshot

\* No session is open.
SessionIdle ==
    /\ session_state = [username |-> NoUser, selected_file |-> NoFile,
                        scan_data |-> NoDoc, current_section |-> sections[1]]
    /\ bucket = {}
    /\ pc = "off"
    /\ trigger = NoTrigger
    /\ radio_live = FALSE
    /\ user_files = <<>>
    /\ selected_real = NoFile
    /\ picked_file = NoFile
    /\ errors = {}
    /\ last_download = "not_called"
    /\ act = "none"
    /\ before = NoSnapshot
    /\ run_start = NoSnapshot

\* Lines 184-198, the top of a script run started by the interaction t: the
\* radio is drawn only while a document is held, and returns the user's choice,
\* its value of the previous run, or its first option when it is drawn anew.
Top(t) ==
    /\ trigger' = t
    /\ IF Truthy(session_state.scan_data)
       THEN /\ session_state' =
                  [session_state EXCEPT !.current_section =
                      IF t.kind = "section" THEN t.section
                      ELSE IF radio_live THEN @ ELSE sections[1]]
            /\ radio_live' = TRUE
       ELSE /\ session_state' = session_state
            /\ radio_live' = FALSE
    /\ pc' = IF show_setup(session_state') THEN "form" ELSE "render"
    /\ user_files' = <<>>
    /\ selected_real' = NoFile
    /\ picked_file' = NoFile
    /\ errors' = {}
    /\ last_download' = "not_called"
    /\ run_start' = Snapshot(session_state)
    /\ UNCHANGED <<bucket, treeVars, filterVars, dataVars>>

\* The user submits the search form (drawn when show_setup holds).
Search ==
    /\ pc = "idle"
    /\ show_setup(session_state)
    /\ \E username_input \in Usernames :
          /\ Top([NoTrigger EXCEPT !.kind = "search",
                                   !.username_input = username_input])
          /\ act' = IF username_input = session_state.username
                    THEN "search_same" ELSE "search_new"
    /\ before' = Snapshot(session_state)

\* The user picks an option of the file selector.
PickFile ==
    /\ pc = "idle"
    /\ show_setup(session_state)
    /\ session_state.username # NoUser
    /\ Top([NoTrigger EXCEPT !.kind = "pick"])
    /\ act' = "pick"
    /\ before' = Snapshot(session_state)

\* The user presses the download button.
ClickDownload ==
    /\ pc = "idle"
    /\ show_setup(session_state)
    /\ session_state.username # NoUser
    /\ Top([NoTrigger EXCEPT !.kind = "click"])
    /\ act' = "click"
    /\ before' = Snapshot(session_state)

\* The user picks a section in the sidebar radio (drawn while a document is
\* held).
SwitchSection ==
    /\ pc = "idle"
    /\ Truthy(session_state.scan_data)
    /\ \E i \in 1..Len(sections) :
          Top([NoTrigger EXCEPT !.kind = "section", !.section = sections[i]])
    /\ act' = "section"
    /\ before' = Snapshot(session_state)

\* Any other widget (a filter query, a row index) starts a script run.
OtherWidget ==
    /\ pc = "idle"
    /\ Top(NoTrigger)
    /\ act' = "other"
    /\ before' = Snapshot(session_state)

\* st.rerun(): the script starts again at once, with no interaction.
Rerun ==
    /\ pc = "rerun"
    /\ Top(NoTrigger)
    /\ UNCHANGED <<act, before>>

\* Lines 200-220: the search form.
Form ==
    /\ pc = "form"
    /\ IF trigger.kind = "search"
       THEN /\ session_state' = SubmitSearch(session_state, trigger.username_input)
            /\ pc' = "rerun"
       ELSE /\ session_state' = session_state
            /\ pc' = "list"
    /\ UNCHANGED <<bucket, trigger, radio_live, user_files, selected_real,
                   picked_file, errors, last_download, act, before, run_start,
                   treeVars, filterVars, dataVars>>

\* Lines 222-231: the listing.
List ==
    /\ pc = "list"
    /\ IF session_state.username = NoUser
       THEN /\ pc' = "render"
            /\ UNCHANGED <<user_files, errors>>
       ELSE \E r \in ListOutcomes(bucket, session_state.username) :
              /\ user_files' = r.files
              /\ errors' = IF r.failed THEN errors \cup {"list_error"} ELSE errors
              /\ pc' = IF r.files = <<>> THEN "render" ELSE "select"
    /\ UNCHANGED <<session_state, bucket, trigger, radio_live, selected_real,
                   picked_file, last_download, act, before, run_start, treeVars,
                   filterVars, dataVars>>

\* Lines 244-265: the selector returns the user's pick, or else its default
\* option; the option is resolved to a file, which becomes the selection.
Select ==
    /\ pc = "select"
    /\ \E choice \in 1..Len(user_files) :
          /\ trigger.kind # "pick" =>
                choice = current_index(user_files, session_state.selected_file)
          /\ picked_file' = IF trigger.kind = "pick"
                            THEN file_options_real(user_files)[choice]
                            ELSE NoFile
          /\ selected_real' = ResolveSelection(user_files, choice)
          /\ session_state' = ApplySelection(session_state, selected_real')
    /\ pc' = "button"
    /\ UNCHANGED <<bucket, trigger, radio_live, user_files, errors, last_download,
                   act, before, run_start, treeVars, filterVars, dataVars>>

\* Lines 267-273: the download button.
Button ==
    /\ pc = "button"
    /\ IF trigger.kind = "click"
       THEN \E data \in DownloadOutcomes(selected_real, session_state.username) :
              /\ session_state' = StoreDownload(session_state, data)
              /\ last_download' = IF data = NoDoc THEN "failed" ELSE data.content
              /\ errors' = IF data = NoDoc THEN errors \cup {"download_error"}
                           ELSE errors
              /\ pc' = IF Truthy(data) THEN "rerun" ELSE "render"
       ELSE /\ pc' = "render"
            /\ UNCHANGED <<session_state, last_download, errors>>
    /\ UNCHANGED <<bucket, trigger, radio_live, user_files, selected_real,
                   picked_file, act, before, run_start, treeVars, filterVars, dataVars>>

\* Lines 275-480: the report is drawn; the session is not written. The script
\* run ends and the page waits for the user.
Render ==
    /\ pc = "render"
    /\ pc' = "idle"
    /\ trigger' = NoTrigger
    /\ user_files' = <<>>
    /\ selected_real' = NoFile
    /\ picked_file' = NoFile
    /\ errors' = {}
    /\ last_download' = "not_called"
    /\ act' = "none"
    /\ before' = NoSnapshot
    /\ run_start' = NoSnapshot
    /\ UNCHANGED <<session_state, bucket, radio_live, treeVars, filterVars, dataVars>>

\* A scan is uploaded to the bucket.
Upload ==
    /\ pc = "idle"
    /\ \E f \in FileNames \ bucket : bucket' = bucket \cup {f}
    /\ UNCHANGED <<session_state, pc, trigger, radio_live, user_files, selected_real,
                   picked_file, errors, last_download, act, before, run_start,
                   treeVars, filterVars, dataVars>>

\* A scan is removed from the bucket.
Delete ==
    /\ pc = "idle"
    /\ \E f \in bucket : bucket' = bucket \ {f}
    /\ UNCHANGED <<session_state, pc, trigger, radio_live, user_files, selected_real,
                   picked_file, errors, last_download, act, before, run_start,
                   treeVars, filterVars, dataVars>>

SessionNext ==
    \/ Search \/ PickFile \/ ClickDownload \/ SwitchSection \/ OtherWidget
    \/ Rerun \/ Form \/ List \/ Select \/ Button \/ Render
    \/ Upload \/ Delete

\* ---- properties of the session -------------------------------------
\* C2: in every reachable state, if a document is held then a file is selected,
\* the username is non-empty, and the document is the one fetched for the
\* selected file under the current username.
C2_HeldDocMatchesSelection ==
    session_state.scan_data # NoDoc =>
        /\ session_state.selected_file # NoFile
        /\ session_state.username # NoUser
        /\ session_state.scan_data.file = session_state.selected_file
        /\ session_state.scan_data.for_user = session_state.username

\* C2 witness: a document is held, the user has switched to another section
\* and the script run is over.
C2_Witness ==
    /\ pc = "idle"
    /\ session_state.scan_data # NoDoc
    /\ session_state.current_section # sections[1]

\* C4: when the download returns no document, the button handler leaves the
\* username, the selected file and the held document as they were, and a file
\* stays selected.
C4_FailedFetchKeepsState ==
    [][(pc = "button" /\ last_download' = "failed") =>
          /\ Snapshot(session_state') = Snapshot(session_state)
          /\ session_state'.selected_file # NoFile]_vars

\* C4 witness: a failed download with no document held before or after it.
C4_Witness ==
    /\ pc = "render"
    /\ last_download = "failed"
    /\ session_state.selected_file # NoFile
    /\ session_state.scan_data = NoDoc

\* C7 as stated, on the runs whose re-listing reports no error: after a submit
\* of the current username has run to its end, re-listing included, username,
\* selected file and held document are as they were before it.
C7_SameUsernameIdempotent ==
    (pc = "render" /\ act = "search_same" /\ errors = {}) =>
        Snapshot(session_state) = before

\* C7 amended: the username is unchanged; the selected file and the held
\* document are unchanged when the re-listing selects nothing (no username,
\* empty listing) or resolves to the selected file again, and otherwise the
\* selected file is the file the selector resolved to and no document is held.
C7_SameUsernameAmended ==
    (pc = "render" /\ act = "search_same") =>
        /\ session_state.username = before.username
        /\ IF selected_real = NoFile \/ selected_real = before.selected_file
           THEN Snapshot(session_state) = before
           ELSE /\ session_state.selected_file = selected_real
                /\ session_state.scan_data = NoDoc

\* C7 witness: the same username was submitted while a document was held, the
\* re-listing is over and the document is still held.
C7_Witness ==
    /\ pc = "render"
    /\ act = "search_same"
    /\ user_files # <<>>
    /\ before.scan_data # NoDoc
    /\ session_state.scan_data # NoDoc

\* C10: when the listing fails, in a script run in which the user neither
\* picked a file nor pressed the download button, username, selected file and
\* held document at the end of the run are what they were at its start.
C10_ListFailureKeepsState ==
    (pc = "render" /\ "list_error" \in errors /\ act \notin {"pick", "click"}) =>
        Snapshot(session_state) = run_start

\* C13: every successful fetch (the download returns a parsed JSON document,
\* whatever its contents, an empty object included) stores that document as
\* the held document, so that the session holds a document afterwards.
C13_SuccessfulFetchStored ==
    last_download \in {"report", "empty"} =>
        session_state.scan_data =
            Doc(selected_real, last_download, session_state.username)

\* C14: after the user picked a file: if the picked file name equals the
\* selected one, selected file and held document are unchanged and nothing was
\* fetched; if it differs, the selected file is the picked one and no document
\* is held.
C14_PickFrame ==
    (picked_file # NoFile /\ pc \in {"button", "render"}) =>
        /\ last_download = "not_called"
        /\ IF picked_file = run_start.selected_file
           THEN Snapshot(session_state) = run_start
           ELSE /\ session_state.selected_file = picked_file
                /\ session_state.scan_data = NoDoc

\* C15: on every path on which list_user_scans returns, the list holds only
\* objects whose name ends with "_<username>.json" and is sorted by upload
\* timestamp, newest first.
C15_ListingFilteredSorted ==
    /\ \A i \in 1..Len(user_files) :
          BelongsTo(user_files[i].file_name, session_state.username)
    /\ \A i, j \in 1..Len(user_files) :
          i < j => user_files[i].upload_timestamp >= user_files[j].upload_timestamp

\* C21: after the user picked the i-th scan of a non-empty listing, the
\* selected file stored in the session is the file name of that i-th listed
\* scan, also when two listed scans have the same displayed upload time.
C21_PickStoresPickedFile ==
    (picked_file # NoFile /\ pc \in {"button", "render"}) =>
        session_state.selected_file = picked_file

\* ===================================================================
\* df_from_list_of_dicts (src/viewer.py:88-93)
\* ===================================================================
\* Number of elements of the list passed to df_from_list_of_dicts.
MaxItems == 2

\* JSON values: a scalar, or an object given by its fields in insertion order.
ScalarValue(v) == [kind |-> "scalar", val |-> v, fields |-> <<>>]
ObjectValue(fields) == [kind |-> "dict", val |-> "", fields |-> fields]
Field(k, v) == [key |-> k, value |-> v]

\* Elements of the list that are no mapping: None and a bare string.
NullItem == [kind |-> "null", val |-> "", fields |-> <<>>]
StrItem == [kind |-> "str", val |-> "s", fields |-> <<>>]

\* The values a key of a record holds in the model: a scalar, an object, an
\* empty object, and an object nested in an object.
FieldValues ==
    {ScalarValue("x"),
     ObjectValue(<<Field("c", ScalarValue("y"))>>),
     ObjectValue(<<>>),
     ObjectValue(<<Field("c", ObjectValue(<<Field("d", ScalarValue("x"))>>))>>)}

\* The records of the model: mappings with the keys "a" and "b", each optional.
Records ==
    {ObjectValue(<<>>)}
    \cup {ObjectValue(<<Field(k, v)>>) : k \in {"a", "b"}, v \in FieldValues}
    \cup {ObjectValue(<<Field("a", v), Field("b", w)>>) :
            v \in FieldValues, w \in FieldValues}

ItemValues == Records \cup {NullItem, StrItem}

NoneItems == [isNone |-> TRUE, list |-> <<>>]
\* The arguments that are lists of n elements.
ItemLists(n) == {[isNone |-> FALSE, list |-> l] : l \in [1..n -> ItemValues]}

\* default_columns: None, an empty list, or the columns named by a caller.
DefaultColumnChoices ==
    {[given |-> FALSE, cols |-> <<>>],
     [given |-> TRUE, cols |-> <<>>],
     [given |-> TRUE, cols |-> << <<"PID">>, <<"Name">> >>]}

\* The cell of a row for a column its record lacks.
NaN == "NaN"

\* pandas' flattening, _normalise_json: f"{key_string}{separator}{key}" with
\* the leading separator removed; a leaf becomes a column, an object is
\* descended into at every depth.
NewKey(key_string, key) ==
    IF key_string = <<>> THEN <<key>> ELSE key_string \o <<".", key>>

RECURSIVE NormaliseJson(_, _)
NormaliseJson(fields, key_string) ==
    IF fields = <<>> THEN <<>>
    ELSE LET f == Head(fields)
             new_key == NewKey(key_string, f.key)
         IN (IF f.value.kind = "dict"
             THEN NormaliseJson(f.value.fields, new_key)
             ELSE <<[col |-> new_key, val |-> f.value.val]>>)
            \o NormaliseJson(Tail(fields), key_string)

IsDictField(f) == f.value.kind = "dict"
IsPlainField(f) == f.value.kind # "dict"

\* Mutant of NormaliseJsonOrdered: a nested object is kept as one cell under
\* its own key.
NormaliseJsonOrdered_NoFlattening(record) ==
    [i \in 1..Len(record.fields) |->
        [col |-> <<record.fields[i].key>>, val |-> "object"]]

\* pandas' _normalise_json_ordered: the top-level keys that hold no object
\* first, then the flattened objects.
NormaliseJsonOrdered(record) ==
    NormaliseJson(SelectSeq(record.fields, IsPlainField), <<>>)
        \o NormaliseJson(SelectSeq(record.fields, IsDictField), <<>>)

RECURSIVE UnionColumns(_, _)
\* DataFrame(list of dicts): the columns, in first-seen order.
UnionColumns(flat, k) ==
    IF k = 0 THEN <<>>
    ELSE LET before_k == UnionColumns(flat, k - 1)
             Fresh(p) == \A j \in 1..Len(before_k) : before_k[j] # p.col
             fresh == SelectSeq(flat[k], Fresh)
         IN before_k \o [j \in 1..Len(fresh) |-> fresh[j].col]

\* DataFrame(list of dicts): one row per dict, NaN where it lacks the column.
DataFrameOf(flat) ==
    LET columns == UnionColumns(flat, Len(flat))
        CellOf(i, j) ==
            IF \E p \in 1..Len(flat[i]) : flat[i][p].col = columns[j]
            THEN flat[i][CHOOSE p \in 1..Len(flat[i]) : flat[i][p].col = columns[j]].val
            ELSE NaN
    IN [raised  |-> FALSE,
        columns |-> columns,
        rows    |-> [i \in 1..Len(flat) |-> [j \in 1..Len(columns) |-> CellOf(i, j)]]]

Raised == [raised |-> TRUE, columns |-> <<>>, rows |-> <<>>]

\* pd.json_normalize(list) with its default arguments, line 93. An element
\* that is no mapping either raises AttributeError (pandas before 1.3: .items()
\* of the element) or is normalised to {} and gives a row of NaN (pandas 1.3
\* and later); the repository pins no version, so both are outcomes.
json_normalize(list) ==
    IF list = <<>> THEN {[raised |-> FALSE, columns |-> <<>>, rows |-> <<>>]}
    ELSE LET flat == [i \in 1..Len(list) |->
                         IF list[i].kind = "dict"
                         THEN NormaliseJsonOrdered(list[i]) ELSE <<>>]
         IN {DataFrameOf(flat)}
            \cup (IF \E i \in 1..Len(list) : list[i].kind # "dict"
                  THEN {Raised} ELSE {})

\* Lines 89-93; the set of tables the call can return.
df_from_list_of_dicts(its, dflt) ==
    IF its.isNone \/ its.list = <<>>
    THEN IF dflt.given /\ dflt.cols # <<>>
         THEN {[raised |-> FALSE, columns |-> dflt.cols, rows |-> <<>>]}
         ELSE {[raised |-> FALSE, columns |-> <<>>, rows |-> <<>>]}
    ELSE json_normalize(its.list)

NormInit ==
    /\ \E n \in 0..MaxItems : items \in {NoneItems} \cup ItemLists(n)
    /\ default_columns \in DefaultColumnChoices
    /\ table = [raised |-> FALSE, columns |-> <<>>, rows |-> <<>>]
    /\ npc = "start"

\* The call of df_from_list_of_dicts.
NormCall ==
    /\ npc = "start"
    /\ table' \in df_from_list_of_dicts(items, default_columns)
    /\ npc' = IF table'.raised THEN "raised" ELSE "done"
    /\ UNCHANGED <<items, default_columns, extractVars, treeVars, filterVars,
                   sessionVars>>

\* df_from_list_of_dicts is not in use.
NormIdle ==
    /\ items = NoneItems
    /\ default_columns = [given |-> FALSE, cols |-> <<>>]
    /\ table = [raised |-> FALSE, columns |-> <<>>, rows |-> <<>>]
    /\ npc = "off"

NormNext == NormCall

\* ---- properties of df_from_list_of_dicts --------------------------
IsMapping(item) == item.kind = "dict"

RECURSIVE LeafPairs(_, _)
\* The keys of a record with their values, the keys of a nested object
\* written parent.child.
LeafPairs(value, path) ==
    IF value.kind # "dict" THEN {[col |-> path, val |-> value.val]}
    ELSE UNION {LeafPairs(value.fields[i].value,
                          IF path = <<>> THEN <<value.fields[i].key>>
                          ELSE path \o <<".", value.fields[i].key>>) :
                  i \in 1..Len(value.fields)}

KeysOf(record) == {p.col : p \in LeafPairs(record, <<>>)}

\* Row r of table t is the row of the record: its value under each of its
\* keys, an absent value under every other column.
IsRowOf(t, r, record) ==
    \A j \in 1..Len(t.columns) :
        IF t.columns[j] \in KeysOf(record)
        THEN [col |-> t.columns[j], val |-> t.rows[r][j]] \in LeafPairs(record, <<>>)
        ELSE t.rows[r][j] = NaN

\* The table of a list of records: the union of their keys as columns, each
\* once, and the rows of the records in input order.
IsTableOf(t, list) ==
    /\ ~t.raised
    /\ {t.columns[j] : j \in 1..Len(t.columns)} =
          UNION {KeysOf(list[i]) : i \in 1..Len(list)}
    /\ \A i, j \in 1..Len(t.columns) : t.columns[i] = t.columns[j] => i = j
    /\ Len(t.rows) = Len(list)
    /\ \A i \in 1..Len(list) : IsRowOf(t, i, list[i])

\* C16: an element that is no mapping is skipped with no row emitted, and the
\* remaining records each produce their row: the call does not raise and
\* returns the table of the mappings among the elements.
C16_MalformedSkipped ==
    (npc \in {"done", "raised"} /\ ~items.isNone /\ items.list # <<>>) =>
        IsTableOf(table, SelectSeq(items.list, IsMapping))

\* C17: for a non-empty list of records the columns are the union of the keys
\* of the records (nested keys as parent.child), there is one row per record,
\* in input order, holding an absent value where the record lacks the column;
\* for an empty input there are no rows and the columns are default_columns
\* if given, else none.
C17_UnionOfKeys ==
    npc \in {"done", "raised"} =>
        /\ (~items.isNone /\ items.list # <<>>
              /\ \A i \in 1..Len(items.list) : IsMapping(items.list[i])) =>
                 IsTableOf(table, items.list)
        /\ (items.isNone \/ items.list = <<>>) =>
              /\ ~table.raised
              /\ table.rows = <<>>
              /\ table.columns = IF default_columns.given
                                 THEN default_columns.cols ELSE <<>>

\* C17 witness: two records, one with a nested object and lacking a key of the
\* other, have been made a table of two rows.
C17_Witness ==
    /\ npc = "done"
    /\ Len(items.list) = 2
    /\ \A i \in 1..2 : IsMapping(items.list[i])
    /\ \E j \in 1..Len(table.columns) : Len(table.columns[j]) > 1
    /\ \E j \in 1..Len(table.columns) : table.rows[2][j] = NaN
    /\ Len(table.rows) = 2

\* ===================================================================
\* Section extraction (src/viewer.py:276-289) and ensure_list (81-86)
\* ===================================================================
\* What a key of a JSON object can hold: nothing (the key is absent), null, a
\* list, or a value that is neither (tag names it).
AbsentValue == [kind |-> "absent", elems |-> <<>>, tag |-> ""]
NullValue == [kind |-> "null", elems |-> <<>>, tag |-> ""]
ListValue(elems) == [kind |-> "list", elems |-> elems, tag |-> ""]
OtherValue(tag) == [kind |-> "other", elems |-> <<>>, tag |-> tag]

\* The values of a key that has a second location, where: "nested" or "root".
FallbackValues(where) ==
    {AbsentValue, NullValue, ListValue(<<>>), ListValue(<<where>>),
     OtherValue(where)}

\* The values of a key with one location.
PlainValues(where) == {AbsentValue, NullValue, ListValue(<<where>>)}

\* The filesystem-snapshot object: absent, null, a mapping, or a non-empty
\* value that is no mapping.
Snapshots ==
    {[kind |-> k, appdata |-> AbsentValue, deleted |-> AbsentValue,
      downloads |-> AbsentValue] : k \in {"absent", "null", "other"}}
    \cup {[kind |-> "dict", appdata |-> a, deleted |-> d, downloads |-> w] :
            a \in FallbackValues("nested"), d \in FallbackValues("nested"),
            w \in PlainValues("nested")}

Documents ==
    {[snapshot |-> s, appdata |-> a, deleted |-> d, processes |-> p] :
        s \in Snapshots, a \in FallbackValues("root"),
        d \in FallbackValues("root"), p \in PlainValues("root")}

\* dict.get(key): None when the key is absent.
Get(value) == IF value.kind = "absent" THEN NullValue ELSE value

\* Mutant of ensure_list: a value that is no list is dropped.
ensure_list_DropOther(x) == IF x.kind = "list" THEN x.elems ELSE <<>>

\* Lines 81-86.
ensure_list(x) ==
    IF x.kind = "null" THEN <<>>
    ELSE IF x.kind = "list" THEN x.elems
    ELSE <<x.tag>>

\* Mutant of OrElse: the second operand is preferred.
OrElse_SecondFirst(a, b) == IF b # <<>> THEN b ELSE a

\* Python's `a or b` on two lists: a unless it is empty.
OrElse(a, b) == IF a # <<>> THEN a ELSE b

\* Line 285: data.get("Снимок файловой системы") or {}
file_snapshot(doc) ==
    IF doc.snapshot.kind \in {"absent", "null"}
    THEN [kind |-> "dict", appdata |-> AbsentValue, deleted |-> AbsentValue,
          downloads |-> AbsentValue]
    ELSE doc.snapshot

ExtractInit ==
    /\ document \in Documents
    /\ downloads_files = <<>>
    /\ appdata_files = <<>>
    /\ deleted_files = <<>>
    /\ processes = <<>>
    /\ xpc = "start"

\* Lines 278-289. file_snapshot.get raises AttributeError when the snapshot is
\* a non-empty value that is no mapping.
Extract ==
    /\ xpc = "start"
    /\ processes' = ensure_list(Get(document.processes))
    /\ LET snap == file_snapshot(document)
       IN IF snap.kind # "dict"
          THEN /\ xpc' = "raised"
               /\ UNCHANGED <<downloads_files, appdata_files, deleted_files>>
          ELSE /\ downloads_files' = ensure_list(Get(snap.downloads))
               /\ appdata_files' = OrElse(ensure_list(Get(snap.appdata)),
                                          ensure_list(Get(document.appdata)))
               /\ deleted_files' = OrElse(ensure_list(Get(snap.deleted)),
                                          ensure_list(Get(document.deleted)))
               /\ xpc' = "done"
    /\ UNCHANGED <<document, normVars, treeVars, filterVars, sessionVars>>

\* No document is being drawn.
ExtractIdle ==
    /\ document = [snapshot |-> [kind |-> "absent", appdata |-> AbsentValue,
                             deleted |-> AbsentValue, downloads |-> AbsentValue],
               appdata |-> AbsentValue, deleted |-> AbsentValue,
               processes |-> AbsentValue]
    /\ downloads_files = <<>>
    /\ appdata_files = <<>>
    /\ deleted_files = <<>>
    /\ processes = <<>>
    /\ xpc = "off"

ExtractNext == Extract

\* ---- properties of the section extraction ------------------------
\* The value is there and is not an empty list.
PresentNonEmpty(value) ==
    value.kind = "other" \/ (value.kind = "list" /\ value.elems # <<>>)

\* The collection a present value stands for; nothing for an absent one.
CollectionOf(value) ==
    CASE value.kind = "list" -> value.elems
      [] value.kind = "other" -> <<value.tag>>
      [] OTHER -> <<>>

\* The value nested in the snapshot object, absent when there is no such
\* object.
Nested(value) == IF document.snapshot.kind = "dict" THEN value ELSE AbsentValue

\* The nested list is used when present and non-empty, the root-level one
\* exactly when the nested one is absent or empty.
FallsBack(result, nested, root) ==
    IF PresentNonEmpty(nested) THEN result = CollectionOf(nested)
    ELSE result = CollectionOf(root)

\* C19: for the AppData and the recycle-bin lists the list nested in the
\* snapshot object is used whenever it is present and non-empty and the
\* root-level list exactly when the nested one is absent or empty; an absent
\* collection, an absent snapshot object included, yields an empty list and
\* no fault.
C19_Fallback ==
    /\ (xpc \in {"done", "raised"} /\ document.snapshot.kind # "other") =>
          /\ xpc = "done"
          /\ FallsBack(appdata_files, Nested(document.snapshot.appdata),
                       document.appdata)
          /\ FallsBack(deleted_files, Nested(document.snapshot.deleted),
                       document.deleted)
          /\ downloads_files = CollectionOf(Nested(document.snapshot.downloads))
    /\ xpc \in {"done", "raised"} => processes = CollectionOf(document.processes)

\* C19 witness: a document with no snapshot object and a root-level AppData
\* list, and no recycle-bin list anywhere, has been extracted.
C19_Witness ==
    /\ xpc = "done"
    /\ document.snapshot.kind = "absent"
    /\ document.appdata = ListValue(<<"root">>)
    /\ appdata_files = <<"root">>
    /\ document.deleted = AbsentValue
    /\ deleted_files = <<>>

\* ===================================================================
\* Specifications
\* ===================================================================
\* The page script with its user and the remote bucket.
Init == SessionInit /\ TreeIdle /\ FilterIdle /\ NormIdle /\ ExtractIdle
Spec == Init /\ [][SessionNext]_vars

\* display_archive_tree on every input of TreeInputs.
InitTree == TreeInit /\ FilterIdle /\ SessionIdle /\ NormIdle /\ ExtractIdle
SpecTree == InitTree /\ [][TreeNext]_vars

\* The same with the loop running to its end: the script is not interrupted
\* between two iterations.
SpecTreeLive == SpecTree /\ WF_vars(TreeStart) /\ WF_vars(TreeVisit)

\* quick_filter_df on every table of Tables and queries of QueryParts.
InitFilter == FilterInit /\ TreeIdle /\ SessionIdle /\ NormIdle /\ ExtractIdle
SpecFilter == InitFilter /\ [][FilterNext]_vars

\* df_from_list_of_dicts on None and on every list of at most MaxItems items.
InitNorm == NormInit /\ TreeIdle /\ FilterIdle /\ SessionIdle /\ ExtractIdle
SpecNorm == InitNorm /\ [][NormNext]_vars

\* The section extraction on every document of Documents.
InitExtract == ExtractInit /\ TreeIdle /\ FilterIdle /\ SessionIdle /\ NormIdle
SpecExtract == InitExtract /\ [][ExtractNext]_vars

====
